---- MODULE Spec2Model ----
(***************************************************************************)
(* Delivery Bot (src/main.py): grid pathfinding (Maze.astar,               *)
(* Maze.dijkstra, Maze.greedy_best_first), the target policies             *)
(* (DefaultPlayer, SmartBatteryPlayer) and the episode loop                *)
(* (Maze.game_loop).                                                       *)
(*                                                                         *)
(* A cell is <<x, y>>.  world.map[y][x] = 1 is modelled as <<x, y>> \in    *)
(* walls.  world.packages and world.goals are Python lists and are kept as *)
(* sequences, because the policies scan them in list order.  None is the   *)
(* empty tuple.                                                            *)
(***************************************************************************)
EXTENDS Integers, Sequences, FiniteSets, TLC

VARIABLES
    walls,                \* world.map: the set of obstacle cells
    packages,             \* world.packages
    goals,                \* world.goals
    recharger,            \* world.recharger (None when absent)
    total_items,          \* world.total_items
    show_emergency_alert, \* world.show_emergency_alert
    player,               \* class of world.player: "smart" or "default"
    position,             \* player.position
    battery,              \* player.battery
    cargo,                \* player.cargo
    algorithm,            \* maze.pathfinding_algorithm
    running,              \* maze.running
    score,                \* maze.score
    steps,                \* maze.steps
    num_deliveries,       \* maze.num_deliveries
    path,                 \* maze.path
    target,               \* local target of game_loop
    idx,                  \* number of cells of path the for loop has walked
    pc,                   \* position of game_loop
    reason,               \* which break ended the loop
    battery0,             \* history: player.battery when the episode started
    posSteps,             \* history: steps taken with battery > 0
    negSteps,             \* history: steps taken with battery <= 0
    maze_size,            \* world.maze_size: the side of the grid
    search                \* locals of the pathfinder call in progress

vars == <<walls, packages, goals, recharger, total_items, show_emergency_alert,
          player, position, battery, cargo, algorithm, running, score, steps,
          num_deliveries, path, target, idx, pc, reason, battery0, posSteps,
          negSteps, maze_size, search>>

(***************************************************************************)
(* Bounds of the model.                                                    *)
(***************************************************************************)
\* side of the grid (World.maze_size is 30)
N == 4
\* largest number of obstacle cells drawn for a pathfinding input
MaxWalls == 2
\* largest seed of a generated world
MaxSeed == 0
\* longest package list and goal list handed to a policy on its own
MaxPkgs == 2
MaxGoals == 3
\* the low battery levels handed to a policy on its own are -1 .. MaxLow
MaxLow == 12

None == <<>>

Cells == (0 .. N - 1) \X (0 .. N - 1)

Abs(i) == IF i < 0 THEN -i ELSE i

Min2(a, b) == IF a <= b THEN a ELSE b

Max2(a, b) == IF a >= b THEN a ELSE b

Range(s) == {s[i] : i \in 1 .. Len(s)}

Algorithms == {"astar", "greedy", "dijkstra"}

(***************************************************************************)
(* Pathfinding.                                                            *)
(***************************************************************************)
\* Maze.heuristic: Manhattan distance
heuristic(a, b) == Abs(a[1] - b[1]) + Abs(a[2] - b[2])

\* neighbors = [(1, 0), (-1, 0), (0, 1), (0, -1)], in the order the loops scan
neighbors == << <<1, 0>>, <<-1, 0>>, <<0, 1>>, <<0, -1>> >>

\* the bounds test and the wall test that guard every neighbour
InGrid(c) ==
    c[1] >= 0 /\ c[1] < maze_size /\ c[2] >= 0 /\ c[2] < maze_size

\* Blocked without the obstacle test
BlockedIgnoringWalls(neighbor) == ~InGrid(neighbor)

\* the two tests every neighbour loop makes before it looks at a neighbour:
\* out of the grid, or maze[neighbor[1]][neighbor[0]] == 1
Blocked(neighbor) == ~InGrid(neighbor) \/ neighbor \in walls

\* order of the heap entries (priority, (x, y)): Python tuple comparison
EntryLeq(e, f) ==
    \/ e[1] < f[1]
    \/ e[1] = f[1] /\ e[2][1] < f[2][1]
    \/ e[1] = f[1] /\ e[2][1] = f[2][1] /\ e[2][2] <= f[2][2]

\* heapq.heappop: the least entry of the heap.  The heap is kept as the set
\* of its entries: no algorithm pushes an entry equal to one in the heap (a
\* cell is pushed again only with a strictly smaller priority).
HeapMin(heap) == CHOOSE e \in heap : \A f \in heap : EntryLeq(e, f)

InHeap(heap, c) == \E e \in heap : e[2] = c

\* d[k] = v on a dict kept as a function
Put(d, k, v) == [c \in DOMAIN d \cup {k} |-> IF c = k THEN v ELSE d[c]]

\* Backtrack appending the cell it stops on as well (the start cell)
RECURSIVE BacktrackWithStart(_, _)
BacktrackWithStart(came_from, current) ==
    <<current>> \o (IF current \in DOMAIN came_from
                    THEN BacktrackWithStart(came_from, came_from[current])
                    ELSE <<>>)

\* the reconstruction loop: while current in came_from: append; step back.
\* The list is built goal-first; Reverse is path.reverse().
RECURSIVE Backtrack(_, _)
Backtrack(came_from, current) ==
    IF current \in DOMAIN came_from
    THEN <<current>> \o Backtrack(came_from, came_from[current])
    ELSE <<>>

\* Reverse with path.reverse() left out
ReverseForgotten(s) == s

Reverse(s) == [i \in 1 .. Len(s) |-> s[Len(s) + 1 - i]]

(***************************************************************************)
(* A search state is [heap, came_from, gscore, close_set]: the locals of  *)
(* astar and dijkstra (fscore is only written, then pushed, so the pushed  *)
(* priority stands for it).  greedy_best_first uses heap (open_set),       *)
(* came_from and close_set (visited).                                      *)
(***************************************************************************)
\* AstarRelax pushing the heuristic alone as priority (tentative_g left out)
AstarRelaxNoCost(st, current, goal, i) ==
    LET neighbor == <<current[1] + neighbors[i][1], current[2] + neighbors[i][2]>>
        tentative_g == st.gscore[current] + 1
    IN  IF Blocked(neighbor)
        THEN st
        ELSE IF neighbor \in st.close_set
                /\ tentative_g >= (IF neighbor \in DOMAIN st.gscore
                                   THEN st.gscore[neighbor] ELSE 0)
        THEN st
        ELSE IF \/ neighbor \notin DOMAIN st.gscore
                \/ tentative_g < st.gscore[neighbor]
                \/ ~InHeap(st.heap, neighbor)
        THEN [st EXCEPT !.came_from = Put(st.came_from, neighbor, current),
                        !.gscore = Put(st.gscore, neighbor, tentative_g),
                        !.heap = st.heap \cup
                            {<<heuristic(neighbor, goal), neighbor>>}]
        ELSE st

\* one pass of astar's "for dx, dy in neighbors" body for neighbour number i
AstarRelax(st, current, goal, i) ==
    LET neighbor == <<current[1] + neighbors[i][1], current[2] + neighbors[i][2]>>
        tentative_g == st.gscore[current] + 1
    IN  IF Blocked(neighbor)
        THEN st
        ELSE IF neighbor \in st.close_set
                /\ tentative_g >= (IF neighbor \in DOMAIN st.gscore
                                   THEN st.gscore[neighbor] ELSE 0)
        THEN st
        ELSE IF \/ neighbor \notin DOMAIN st.gscore
                \/ tentative_g < st.gscore[neighbor]
                \/ ~InHeap(st.heap, neighbor)
        THEN [st EXCEPT !.came_from = Put(st.came_from, neighbor, current),
                        !.gscore = Put(st.gscore, neighbor, tentative_g),
                        !.heap = st.heap \cup
                            {<<tentative_g + heuristic(neighbor, goal), neighbor>>}]
        ELSE st

\* the body of astar's while loop after the goal test: close current, then
\* relax its four neighbours in order
AstarExpand(st, current, goal) ==
    LET s0 == [st EXCEPT !.close_set = st.close_set \cup {current}]
        s1 == AstarRelax(s0, current, goal, 1)
        s2 == AstarRelax(s1, current, goal, 2)
        s3 == AstarRelax(s2, current, goal, 3)
    IN  AstarRelax(s3, current, goal, 4)

RECURSIVE AstarLoop(_, _)
AstarLoop(st, goal) ==
    IF st.heap = {}
    THEN <<>>
    ELSE LET e == HeapMin(st.heap)
             current == e[2]
             popped == [st EXCEPT !.heap = st.heap \ {e}]
         IN  IF current = goal
             THEN Reverse(Backtrack(st.came_from, current))
             ELSE AstarLoop(AstarExpand(popped, current, goal), goal)

\* Maze.astar(start, goal)
astar(start, goal) ==
    AstarLoop([heap |-> {<<heuristic(start, goal), start>>},
               came_from |-> << >>,
               gscore |-> [c \in {start} |-> 0],
               close_set |-> {}], goal)

\* one pass of dijkstra's "for dx, dy in neighbors" body for neighbour number i
DijkstraRelax(st, current, i) ==
    LET neighbor == <<current[1] + neighbors[i][1], current[2] + neighbors[i][2]>>
        tentative_g == st.gscore[current] + 1
    IN  IF Blocked(neighbor)
        THEN st
        ELSE IF neighbor \in st.close_set
                /\ tentative_g >= (IF neighbor \in DOMAIN st.gscore
                                   THEN st.gscore[neighbor] ELSE 0)
        THEN st
        ELSE IF \/ neighbor \notin DOMAIN st.gscore
                \/ tentative_g < st.gscore[neighbor]
                \/ ~InHeap(st.heap, neighbor)
        THEN [st EXCEPT !.came_from = Put(st.came_from, neighbor, current),
                        !.gscore = Put(st.gscore, neighbor, tentative_g),
                        !.heap = st.heap \cup {<<tentative_g, neighbor>>}]
        ELSE st

DijkstraExpand(st, current) ==
    LET s0 == [st EXCEPT !.close_set = st.close_set \cup {current}]
        s1 == DijkstraRelax(s0, current, 1)
        s2 == DijkstraRelax(s1, current, 2)
        s3 == DijkstraRelax(s2, current, 3)
    IN  DijkstraRelax(s3, current, 4)

RECURSIVE DijkstraLoop(_, _)
DijkstraLoop(st, goal) ==
    IF st.heap = {}
    THEN <<>>
    ELSE LET e == HeapMin(st.heap)
             current == e[2]
             popped == [st EXCEPT !.heap = st.heap \ {e}]
         IN  IF current = goal
             THEN Reverse(Backtrack(st.came_from, current))
             ELSE DijkstraLoop(DijkstraExpand(popped, current), goal)

\* Maze.dijkstra(start, goal)
dijkstra(start, goal) ==
    DijkstraLoop([heap |-> {<<0, start>>},
                  came_from |-> << >>,
                  gscore |-> [c \in {start} |-> 0],
                  close_set |-> {}], goal)

\* one pass of greedy_best_first's neighbour loop for neighbour number i
GreedyRelax(st, current, goal, i) ==
    LET neighbor == <<current[1] + neighbors[i][1], current[2] + neighbors[i][2]>>
    IN  IF Blocked(neighbor)
        THEN st
        ELSE IF neighbor \in st.close_set
        THEN st
        ELSE IF ~InHeap(st.heap, neighbor)
        THEN [st EXCEPT !.came_from = Put(st.came_from, neighbor, current),
                        !.heap = st.heap \cup
                            {<<heuristic(neighbor, goal), neighbor>>}]
        ELSE st

GreedyExpand(st, current, goal) ==
    LET s0 == [st EXCEPT !.close_set = st.close_set \cup {current}]
        s1 == GreedyRelax(s0, current, goal, 1)
        s2 == GreedyRelax(s1, current, goal, 2)
        s3 == GreedyRelax(s2, current, goal, 3)
    IN  GreedyRelax(s3, current, goal, 4)

RECURSIVE GreedyLoop(_, _)
GreedyLoop(st, goal) ==
    IF st.heap = {}
    THEN <<>>
    ELSE LET e == HeapMin(st.heap)
             current == e[2]
             popped == [st EXCEPT !.heap = st.heap \ {e}]
         IN  IF current = goal
             THEN Reverse(Backtrack(st.came_from, current))
             ELSE GreedyLoop(GreedyExpand(popped, current, goal), goal)

\* Maze.greedy_best_first(start, goal)
greedy_best_first(start, goal) ==
    GreedyLoop([heap |-> {<<heuristic(start, goal), start>>},
                came_from |-> << >>,
                gscore |-> << >>,
                close_set |-> {}], goal)

\* the algorithm dispatch of game_loop; an unknown name falls back to astar
FindPath(alg, start, goal) ==
    IF alg = "astar" THEN astar(start, goal)
    ELSE IF alg = "greedy" THEN greedy_best_first(start, goal)
    ELSE IF alg = "dijkstra" THEN dijkstra(start, goal)
    ELSE astar(start, goal)

(***************************************************************************)
(* Pathfinding on its own: the inputs of one call are drawn from the grid, *)
(* and the call is made through the dispatch of game_loop.  start is       *)
(* walkable, as the position of the player always is.                      *)
(***************************************************************************)
\* cells among which generate_obstacles places obstacles in the model: next
\* to the corner <<0, 0>>, which two of them cut off, and across the middle
ObstacleCells ==
    {<<1, 0>>, <<0, 1>>, <<1, 1>>, <<2, 1>>, <<1, 2>>, <<2, 2>>, <<3, 2>>,
     <<2, 3>>}

WallSets == {W \in SUBSET ObstacleCells : Cardinality(W) <= MaxWalls}

InitPath ==
    /\ walls \in WallSets
    /\ position \in Cells \ walls
    /\ target \in Cells
    /\ algorithm \in Algorithms
    /\ pc = "find"
    /\ path = <<>>
    /\ packages = <<>> /\ goals = <<>> /\ recharger = None
    /\ total_items = 0 /\ show_emergency_alert = FALSE /\ player = "none"
    /\ battery = 0 /\ cargo = 0 /\ running = FALSE /\ score = 0
    /\ steps = 0 /\ num_deliveries = 0 /\ idx = 0 /\ reason = ""
    /\ battery0 = 0 /\ posSteps = 0 /\ negSteps = 0
    /\ maze_size = N
    /\ search = None

\* self.path = self.<algorithm>(self.world.player.position, target)
CallPathfinder ==
    /\ pc = "find"
    /\ path' = FindPath(algorithm, position, target)
    /\ pc' = "found"
    /\ UNCHANGED <<maze_size, search>>
    /\ UNCHANGED <<walls, packages, goals, recharger, total_items,
                   show_emergency_alert, player, position, battery, cargo,
                   algorithm, running, score, steps, num_deliveries, target,
                   idx, reason, battery0, posSteps, negSteps>>

NextPath == CallPathfinder

SpecPath == InitPath /\ [][NextPath]_vars

(***************************************************************************)
(* One call of a pathfinder, one action per iteration of its while loop:   *)
(* search holds open_set / oheap, came_from, gscore and close_set /        *)
(* visited between two iterations.                                         *)
(***************************************************************************)
\* the locals of a pathfinder when its while loop is entered
StartSearch(alg, start, goal) ==
    [heap |-> {<<IF alg = "dijkstra" THEN 0 ELSE heuristic(start, goal),
                 start>>},
     came_from |-> << >>,
     gscore |-> IF alg = "greedy" THEN << >> ELSE [c \in {start} |-> 0],
     close_set |-> {}]

\* Expand closing nothing: the popped cell is not added to close_set / visited
ExpandNotClosing(alg, st, current, goal) ==
    LET s == IF alg = "greedy" THEN GreedyExpand(st, current, goal)
             ELSE IF alg = "dijkstra" THEN DijkstraExpand(st, current)
             ELSE AstarExpand(st, current, goal)
    IN  [s EXCEPT !.close_set = {}]

\* the body of the while loop of the chosen pathfinder after its goal test
Expand(alg, st, current, goal) ==
    IF alg = "greedy" THEN GreedyExpand(st, current, goal)
    ELSE IF alg = "dijkstra" THEN DijkstraExpand(st, current)
    ELSE AstarExpand(st, current, goal)

\* the obstacle sets of the searches followed step by step
SearchWalls == {W \in WallSets : W \subseteq {<<1, 0>>, <<0, 1>>, <<2, 1>>}}

InitSearch ==
    /\ walls \in SearchWalls
    /\ position \in Cells \ walls
    /\ target \in Cells
    /\ algorithm \in Algorithms
    /\ search = StartSearch(algorithm, position, target)
    /\ pc = "search"
    /\ path = <<>>
    /\ packages = <<>> /\ goals = <<>> /\ recharger = None
    /\ total_items = 0 /\ show_emergency_alert = FALSE /\ player = "none"
    /\ battery = 0 /\ cargo = 0 /\ running = FALSE /\ score = 0
    /\ steps = 0 /\ num_deliveries = 0 /\ idx = 0 /\ reason = ""
    /\ battery0 = 0 /\ posSteps = 0 /\ negSteps = 0
    /\ maze_size = N

\* an iteration that pops a cell other than goal and expands it
SearchExpand ==
    /\ pc = "search"
    /\ search.heap # {}
    /\ LET e == HeapMin(search.heap)
           popped == [search EXCEPT !.heap = search.heap \ {e}]
       IN  /\ e[2] # target
           /\ search' = Expand(algorithm, popped, e[2], target)
    /\ steps' = steps + 1
    /\ UNCHANGED <<walls, packages, goals, recharger, total_items,
                   show_emergency_alert, player, position, battery, cargo,
                   algorithm, running, score, num_deliveries, path, target,
                   idx, pc, reason, battery0, posSteps, negSteps, maze_size>>

\* the iteration that pops goal: the path is rebuilt and returned
SearchFound ==
    /\ pc = "search"
    /\ search.heap # {}
    /\ LET e == HeapMin(search.heap)
       IN  /\ e[2] = target
           /\ search' = [search EXCEPT !.heap = search.heap \ {e}]
           /\ path' = Reverse(Backtrack(search.came_from, e[2]))
    /\ pc' = "found"
    /\ UNCHANGED <<walls, packages, goals, recharger, total_items,
                   show_emergency_alert, player, position, battery, cargo,
                   algorithm, running, score, steps, num_deliveries, target,
                   idx, reason, battery0, posSteps, negSteps, maze_size>>

\* "while open_set" fails: return []
SearchFail ==
    /\ pc = "search"
    /\ search.heap = {}
    /\ path' = <<>>
    /\ pc' = "failed"
    /\ UNCHANGED <<walls, packages, goals, recharger, total_items,
                   show_emergency_alert, player, position, battery, cargo,
                   algorithm, running, score, steps, num_deliveries, target,
                   idx, reason, battery0, posSteps, negSteps, maze_size,
                   search>>

NextSearch == SearchExpand \/ SearchFound \/ SearchFail

SpecSearch == InitSearch /\ [][NextSearch]_vars

(***************************************************************************)
(* Policies.  The methods read self.position, self.battery, self.cargo and *)
(* world.packages, world.goals, world.recharger: the state variables.      *)
(***************************************************************************)
\* BasePlayer.__init__: self.battery = 70
InitialBattery == 70
\* game_loop: self.world.player.battery = 60 on the recharger
RechargeLevel == 60
\* game_loop: self.score += 50
DeliveryScore == 50
\* --weight of the entry point (default=1.0)
weight == 1
\* SmartBatteryPlayer.__init__
base_min_battery == 15 * weight
delivery_points == 50
max_cargo == 4
nearby_package_range == 5 * weight
max_path_deviation == 3 * weight

\* SmartBatteryPlayer.distance_to
distance_to(pos1, pos2) == Abs(pos1[1] - pos2[1]) + Abs(pos1[2] - pos2[2])

\* least index of a non-empty set of indices
MinIdx(S) == CHOOSE i \in S : \A j \in S : i <= j

\* Nearest keeping the later cell on ties (d <= best_dist)
NearestLastOnTies(list) ==
    LET best == {i \in 1 .. Len(list) :
                    \A j \in 1 .. Len(list) :
                        distance_to(list[i], position)
                            <= distance_to(list[j], position)}
    IN  list[CHOOSE i \in best : \A j \in best : j <= i]

\* DefaultPlayer.escolher_alvo: scan of a list for the first cell at minimal
\* Manhattan distance (d < best_dist keeps the earlier one on ties)
Nearest(list) ==
    list[MinIdx({i \in 1 .. Len(list) :
        \A j \in 1 .. Len(list) :
            distance_to(list[i], position) <= distance_to(list[j], position)})]

\* DefaultPlayer.escolher_alvo
DefaultEscolherAlvo ==
    IF cargo = 0 /\ packages # <<>>
    THEN Nearest(packages)
    ELSE IF goals # <<>> THEN Nearest(goals) ELSE None

\* SmartBatteryPlayer.is_on_path with max_deviation = self.max_path_deviation
is_on_path(point, start, end) ==
    LET direct_dist == distance_to(start, end)
        detour_dist == distance_to(start, point) + distance_to(point, end)
        min_x == Min2(start[1], end[1]) - max_path_deviation
        max_x == Max2(start[1], end[1]) + max_path_deviation
        min_y == Min2(start[2], end[2]) - max_path_deviation
        max_y == Max2(start[2], end[2]) + max_path_deviation
        in_bounds == /\ min_x <= point[1] /\ point[1] <= max_x
                     /\ min_y <= point[2] /\ point[2] <= max_y
    IN  detour_dist <= direct_dist + max_path_deviation /\ in_bounds

\* min over world.goals of distance_to(pkg, goal); only used with goals # <<>>
\* (with no goal the Python value is float('inf'), handled where it is used)
BestGoalDist(pkg) ==
    LET ds == {distance_to(pkg, goals[i]) : i \in 1 .. Len(goals)}
    IN  CHOOSE d \in ds : \A e \in ds : d <= e

\* SmartBatteryPlayer.calculate_delivery_value
calculate_delivery_value(current_pos, goal_pos, recharger_pos) ==
    LET delivery_dist == distance_to(current_pos, goal_pos)
        recharger_dist == distance_to(goal_pos, recharger_pos)
        total_steps == delivery_dist + recharger_dist
        battery_cost == IF battery < delivery_dist
                        THEN total_steps + (delivery_dist - battery) * 4
                        ELSE total_steps
    IN  delivery_points - battery_cost - total_steps

RECURSIVE SumOver(_, _)
SumOver(S, f) ==
    IF S = {} THEN 0
    ELSE LET i == CHOOSE j \in S : TRUE IN f[i] + SumOver(S \ {i}, f)

\* SmartBatteryPlayer.calculate_path_value.  The Python value is a float
\*   base + sum over the taken packages of
\*          50 * (1.0 - pkg_dist / (D + 1)) - best_goal_dist * 0.5
\* and is kept here as the exact fraction num / den with den = 2 * (D + 1);
\* neginf says the value is -inf (a taken package while world.goals is empty).
\* The packages taken are the first (max_cargo - cargo) packages on the path,
\* in list order.
calculate_path_value(current_pos, target_pos) ==
    LET D == distance_to(current_pos, target_pos)
        base_value == calculate_delivery_value(current_pos, target_pos, recharger)
        available_cargo == max_cargo - cargo
        onp == {i \in 1 .. Len(packages) :
                    is_on_path(packages[i], current_pos, target_pos)}
        taken == IF available_cargo > 0
                 THEN {i \in onp :
                        Cardinality({j \in onp : j < i}) < available_cargo}
                 ELSE {}
        extra == [i \in taken |->
                    100 * (D + 1)
                    - 100 * distance_to(current_pos, packages[i])
                    - (D + 1) * (IF goals = <<>> THEN 0
                                 ELSE BestGoalDist(packages[i]))]
    IN  [neginf |-> taken # {} /\ goals = <<>>,
         num |-> 2 * (D + 1) * base_value + SumOver(taken, extra),
         den |-> 2 * (D + 1)]

\* value > best_value on two path values
ValueGreater(v, w) ==
    IF v.neginf THEN FALSE
    ELSE IF w.neginf THEN TRUE
    ELSE v.num * w.den > w.num * v.den

\* the "if value > best_value" scan of a list restricted to the indices ok:
\* the first candidate whose value no other candidate exceeds; None when no
\* candidate has a value above float('-inf')
BestByValue(list, ok) ==
    LET cand == {i \in ok : ~calculate_path_value(position, list[i]).neginf}
        best == {i \in cand : \A j \in cand :
                    ~ValueGreater(calculate_path_value(position, list[j]),
                                  calculate_path_value(position, list[i]))}
    IN  IF cand = {} THEN None ELSE list[MinIdx(best)]

\* SmartBatteryPlayer.get_dynamic_thresholds, second component
min_battery(recharger_dist) == Min2(base_min_battery + (recharger_dist \div 3), 40)

\* SmartBatteryPlayer.find_nearby_packages followed by the scan of its result
\* in escolher_alvo: the list is sorted by (value, pkg) in decreasing order,
\* value = 50 - 2 * pkg_dist - 0.5 * best_goal_dist (kept doubled), and the
\* first package passing the battery test is returned
NearbyPick ==
    LET val(i) == IF goals = <<>> THEN 0
                  ELSE 2 * delivery_points
                       - 4 * distance_to(position, packages[i])
                       - BestGoalDist(packages[i])
        After(i, j) == \/ val(i) < val(j)
                       \/ val(i) = val(j) /\ packages[i][1] < packages[j][1]
                       \/ /\ val(i) = val(j)
                          /\ packages[i][1] = packages[j][1]
                          /\ packages[i][2] < packages[j][2]
        pass == {i \in 1 .. Len(packages) :
                    LET pkg_dist == distance_to(position, packages[i])
                    IN  /\ pkg_dist <= nearby_package_range
                        /\ (battery >= pkg_dist \/ pkg_dist <= 3)}
    IN  IF pass = {} THEN None
        ELSE packages[CHOOSE i \in pass : \A j \in pass : ~After(i, j)]

\* FirstWithin3 without the distance test
FirstInList(list) == IF list = <<>> THEN None ELSE list[1]

\* first cell of a list within Manhattan distance 3 of the player, or None
FirstWithin3(list) ==
    LET near == {i \in 1 .. Len(list) : distance_to(position, list[i]) <= 3}
    IN  IF near = {} THEN None ELSE list[MinIdx(near)]

\* EmergencyBranch with < for <=
EmergencyBranchStrict ==
    /\ recharger # None
    /\ battery < distance_to(position, recharger)

\* the immediate-recharge branch of SmartBatteryPlayer.escolher_alvo, the one
\* that sets world.show_emergency_alert
EmergencyBranch ==
    /\ recharger # None
    /\ battery <= distance_to(position, recharger)

\* SmartBatteryPlayer.should_try_last_delivery: both returns are
\* self.battery >= delivery_dist
should_try_last_delivery(goal_pos, need_package) ==
    LET totals == {distance_to(position, packages[i])
                     + distance_to(packages[i], goal_pos) :
                        i \in 1 .. Len(packages)}
        delivery_dist == IF need_package /\ totals # {}
                         THEN CHOOSE d \in totals : \A e \in totals : d <= e
                         ELSE distance_to(position, goal_pos)
    IN  battery >= delivery_dist

\* the "if is_last" block of SmartBatteryPlayer.escolher_alvo
LastDeliveryTarget ==
    LET goal == goals[1]
        total(i) == distance_to(position, packages[i])
                      + distance_to(packages[i], goal)
        afford == {i \in 1 .. Len(packages) : battery >= total(i)}
        best == {i \in afford : \A j \in afford : total(i) <= total(j)}
    IN  IF cargo > 0
        THEN IF should_try_last_delivery(goal, FALSE) THEN goal ELSE recharger
        ELSE IF packages # <<>>
        THEN IF should_try_last_delivery(goal, TRUE) /\ afford # {}
             THEN packages[MinIdx(best)]
             ELSE recharger
        ELSE None

\* CriticalTarget giving up (None) where nothing is within 3 cells
CriticalTargetGivesUp ==
    IF cargo > 0 /\ goals # <<>>
    THEN FirstWithin3(goals)
    ELSE IF packages # <<>>
    THEN FirstWithin3(packages)
    ELSE None

\* the "battery <= recharger_dist + 5" block of SmartBatteryPlayer.escolher_alvo
CriticalTarget ==
    IF cargo > 0 /\ goals # <<>>
    THEN IF FirstWithin3(goals) # None THEN FirstWithin3(goals) ELSE recharger
    ELSE IF packages # <<>>
    THEN IF FirstWithin3(packages) # None THEN FirstWithin3(packages)
         ELSE recharger
    ELSE recharger

\* CanCarryMore with <= for <
CanCarryMoreOffByOne == cargo <= max_cargo

\* "if self.cargo < self.max_cargo": the guard of the nearby-package pickup
CanCarryMore == cargo < max_cargo

\* SafeTarget without the leg back to the recharger and the margin
SafeTargetOneWay(c) ==
    \/ distance_to(position, c) <= 3
    \/ battery >= distance_to(position, c)

\* "if delivery_dist <= 3 or self.battery >= total_dist_needed + 5", and the
\* same test on pkg_dist: the filter of the goals and of the packages
SafeTarget(c) ==
    \/ distance_to(position, c) <= 3
    \/ battery >= distance_to(position, c) + distance_to(c, recharger) + 5

\* OpportunisticRecharge with the battery test the wrong way round
OpportunisticRechargeInverted ==
    /\ distance_to(position, recharger) <= 3
    /\ battery >= 45

\* "if recharger_dist <= 3 and self.battery < 45"
OpportunisticRecharge ==
    /\ distance_to(position, recharger) <= 3
    /\ battery < 45

\* NormalTarget evaluating the goals whatever the cargo, before the packages
NormalTargetIgnoringCargo ==
    LET recharger_dist == distance_to(position, recharger)
        safe(list) == {i \in 1 .. Len(list) : SafeTarget(list[i])}
    IN  IF OpportunisticRecharge
        THEN recharger
        ELSE IF goals # <<>> /\ BestByValue(goals, safe(goals)) # None
        THEN BestByValue(goals, safe(goals))
        ELSE IF CanCarryMore /\ NearbyPick # None
        THEN NearbyPick
        ELSE IF packages # <<>>
        THEN IF BestByValue(packages, safe(packages)) # None
             THEN BestByValue(packages, safe(packages))
             ELSE recharger
        ELSE IF battery < min_battery(recharger_dist)
        THEN recharger
        ELSE None

\* the rest of SmartBatteryPlayer.escolher_alvo, from the opportunistic
\* recharge on
NormalTarget ==
    LET recharger_dist == distance_to(position, recharger)
        safe(list) == {i \in 1 .. Len(list) : SafeTarget(list[i])}
    IN  IF OpportunisticRecharge
        THEN recharger
        ELSE IF CanCarryMore /\ NearbyPick # None
        THEN NearbyPick
        ELSE IF cargo > 0
        THEN IF goals # <<>> /\ BestByValue(goals, safe(goals)) # None
             THEN BestByValue(goals, safe(goals))
             ELSE recharger
        ELSE IF packages # <<>>
        THEN IF BestByValue(packages, safe(packages)) # None
             THEN BestByValue(packages, safe(packages))
             ELSE recharger
        ELSE IF battery < min_battery(recharger_dist)
        THEN recharger
        ELSE None

\* SmartBatteryPlayer.escolher_alvo
SmartEscolherAlvo ==
    IF recharger = None
    THEN None
    ELSE IF EmergencyBranch
    THEN recharger
    ELSE IF Len(goals) = 1
    THEN LastDeliveryTarget
    ELSE IF battery <= distance_to(position, recharger) + 5
    THEN CriticalTarget
    ELSE NormalTarget

\* self.world.player.escolher_alvo(self.world)
escolher_alvo ==
    IF player = "smart" THEN SmartEscolherAlvo ELSE DefaultEscolherAlvo

(***************************************************************************)
(* World.__init__: the layout of a world is a function of the seed of the  *)
(* random generator.  The draws are modelled as a walk over the free cells *)
(* in row-major order, from cell number seed in steps of stride; a world   *)
(* is kept only if its cells are distinct, as the rejection loops of       *)
(* World.__init__, generate_player and generate_recharger ensure.  The     *)
(* recharger is the drawn free cell of the centre region, or absent.       *)
(***************************************************************************)
\* World.__init__: self.total_items = 4
TotalItems == 4

Seeds == 0 .. MaxSeed

Strides == {1, 3, 7}

\* the obstacle sets of the generated worlds
WorldWalls == {W \in WallSets : W \subseteq {<<1, 0>>, <<0, 1>>, <<2, 1>>}}

RowMajor == [i \in 1 .. N * N |-> <<(i - 1) % N, (i - 1) \div N>>]

FreeCells(W) == LET Free(c) == c \notin W IN SelectSeq(RowMajor, Free)

\* the k-th cell drawn (k = 0, 1, ...)
Place(W, seed, stride, k) ==
    FreeCells(W)[((seed + k * stride) % Len(FreeCells(W))) + 1]

\* generate_recharger draws in the 3 x 3 region around the centre
CenterRegion ==
    {c \in Cells : /\ c[1] >= (N \div 2) - 1 /\ c[1] <= (N \div 2) + 1
                   /\ c[2] >= (N \div 2) - 1 /\ c[2] <= (N \div 2) + 1}

\* generate_recharger on its own: the centre cell number k (row-major, from
\* 0, modulo their number) among those not taken
DrawRecharger(k, taken) ==
    LET Free(c) == c \in CenterRegion /\ c \notin taken
        free == SelectSeq(RowMajor, Free)
    IN  free[(k % Len(free)) + 1]

\* battery levels an episode is entered with: the 70 of BasePlayer.__init__
\* and the low levels that a walk on the 30 x 30 grid leads to
InitBatteries == {0, 3, 9, InitialBattery}

PlayerClasses == {"smart", "default"}

Init ==
    /\ walls \in WorldWalls
    /\ total_items = TotalItems
    /\ \E seed \in Seeds, stride \in Strides :
         LET drawn == [k \in 1 .. 2 * TotalItems + 2 |->
                            Place(walls, seed, stride, k - 1)]
         IN  /\ Cardinality(Range(drawn)) = Len(drawn)
             /\ packages = SubSeq(drawn, 1, TotalItems + 1)
             /\ goals = SubSeq(drawn, TotalItems + 2, 2 * TotalItems + 1)
             /\ position = drawn[2 * TotalItems + 2]
             /\ recharger \in
                    {None, DrawRecharger(seed + stride, Range(drawn) \cup walls)}
    /\ show_emergency_alert = FALSE
    /\ player \in PlayerClasses
    /\ battery \in InitBatteries
    /\ battery0 = battery
    /\ cargo = 0
    /\ algorithm \in Algorithms
    /\ running = TRUE
    /\ score = 0
    /\ steps = 0
    /\ num_deliveries = 0
    /\ path = <<>>
    /\ target = None
    /\ idx = 0
    /\ pc = "check"
    /\ reason = ""
    /\ posSteps = 0
    /\ negSteps = 0
    /\ maze_size = N
    /\ search = None

(***************************************************************************)
(* Maze.game_loop, one action per stage of the loop body.                  *)
(***************************************************************************)
\* Remove dropping the head of the list whatever x is (list.pop(0))
RemoveHead(list, x) == Tail(list)

\* Remove leaving the list as it is
RemoveForgotten(list, x) == list

\* list.remove(x): drop the first occurrence of x
Remove(list, x) ==
    LET i == MinIdx({j \in 1 .. Len(list) : list[j] = x})
    IN  SubSeq(list, 1, i - 1) \o SubSeq(list, i + 1, Len(list))

\* AllDelivered with > for >=
AllDeliveredStrict == num_deliveries > total_items

\* the success test at the top of the loop
AllDelivered == num_deliveries >= total_items

\* StepCost testing the battery before the decrement
StepCostBeforeDecrement(b) == IF b >= 0 THEN 1 ELSE 5

\* the score a step costs: battery is decremented first, then tested
StepCost(b) == IF b - 1 >= 0 THEN 1 ELSE 5

\* Drain stopping at zero
DrainClamped(b) == Max2(b - 1, 0)

\* self.world.player.battery -= 1
Drain(b) == b - 1

\* Break going round the loop again (continue for break)
BreakContinue(r) ==
    /\ running' = running
    /\ pc' = "check"
    /\ reason' = reason

\* "self.running = False; break": the ways out of the loop; r records which
Break(r) ==
    /\ running' = FALSE
    /\ pc' = "done"
    /\ reason' = r

\* EmptyPath as the test "self.path is None", which no list passes
EmptyPathIsNone(p) == FALSE

\* "if not self.path"
EmptyPath(p) == p = <<>>

\* WalkDone leaving the walk after its first cell
WalkDoneAfterFirst(i, p) == i >= 1

\* WalkDone asking for one cell more than the path has
WalkDoneOffByOne(i, p) == i = Len(p) + 1

\* "for pos in self.path" is exhausted once i cells have been visited
WalkDone(i, p) == i = Len(p)

\* while self.running: if self.num_deliveries >= self.world.total_items: break
CheckDone ==
    /\ pc = "check"
    /\ running
    /\ IF AllDelivered
       THEN Break("success")
       ELSE /\ pc' = "choose"
            /\ UNCHANGED <<running, reason>>
    /\ UNCHANGED <<maze_size, search>>
    /\ UNCHANGED <<walls, packages, goals, recharger, total_items,
                   show_emergency_alert, player, position, battery, cargo,
                   algorithm, score, steps, num_deliveries, path, target, idx,
                   battery0, posSteps, negSteps>>

\* target = self.world.player.escolher_alvo(self.world); if target is None: break
ChooseTarget ==
    /\ pc = "choose"
    /\ target' = escolher_alvo
    /\ show_emergency_alert' =
          IF player = "smart" /\ EmergencyBranch THEN TRUE
          ELSE show_emergency_alert
    /\ IF escolher_alvo = None
       THEN Break("no_target")
       ELSE /\ pc' = "navigate"
            /\ UNCHANGED <<running, reason>>
    /\ UNCHANGED <<maze_size, search>>
    /\ UNCHANGED <<walls, packages, goals, recharger, total_items, player,
                   position, battery, cargo, algorithm, score, steps,
                   num_deliveries, path, idx, battery0, posSteps, negSteps>>

\* self.path = <pathfinder>(position, target); if not self.path: break
Navigate ==
    /\ pc = "navigate"
    /\ path' = FindPath(algorithm, position, target)
    /\ idx' = 0
    /\ IF EmptyPath(FindPath(algorithm, position, target))
       THEN Break("no_path")
       ELSE /\ pc' = "walk"
            /\ UNCHANGED <<running, reason>>
    /\ UNCHANGED <<maze_size, search>>
    /\ UNCHANGED <<walls, packages, goals, recharger, total_items,
                   show_emergency_alert, player, position, battery, cargo,
                   algorithm, score, steps, num_deliveries, target, battery0,
                   posSteps, negSteps>>

\* Step collecting the package of every cell walked over
StepCollecting ==
    /\ pc = "walk"
    /\ idx < Len(path)
    /\ LET pos == path[idx + 1]
       IN  /\ position' = pos
           /\ steps' = steps + 1
           /\ score' = score - StepCost(battery)
           /\ battery' = IF recharger # None /\ pos = recharger
                         THEN RechargeLevel
                         ELSE Drain(battery)
           /\ IF pos \in Range(packages) /\ idx + 1 < Len(path)
              THEN cargo' = cargo + 1 /\ packages' = Remove(packages, pos)
              ELSE UNCHANGED <<cargo, packages>>
    /\ posSteps' = IF battery > 0 THEN posSteps + 1 ELSE posSteps
    /\ negSteps' = IF battery <= 0 THEN negSteps + 1 ELSE negSteps
    /\ idx' = idx + 1
    /\ pc' = IF WalkDone(idx + 1, path) THEN "arrive" ELSE "walk"
    /\ UNCHANGED <<maze_size, search>>
    /\ UNCHANGED <<walls, goals, recharger, total_items,
                   show_emergency_alert, player, algorithm, running,
                   num_deliveries, path, target, battery0, reason>>

\* one iteration of "for pos in self.path"
Step ==
    /\ pc = "walk"
    /\ idx < Len(path)
    /\ LET pos == path[idx + 1]
       IN  /\ position' = pos
           /\ steps' = steps + 1
           /\ score' = score - StepCost(battery)
           /\ battery' = IF recharger # None /\ pos = recharger
                         THEN RechargeLevel
                         ELSE Drain(battery)
    /\ posSteps' = IF battery > 0 THEN posSteps + 1 ELSE posSteps
    /\ negSteps' = IF battery <= 0 THEN negSteps + 1 ELSE negSteps
    /\ idx' = idx + 1
    /\ pc' = IF WalkDone(idx + 1, path) THEN "arrive" ELSE "walk"
    /\ UNCHANGED <<maze_size, search>>
    /\ UNCHANGED <<walls, packages, goals, recharger, total_items,
                   show_emergency_alert, player, cargo, algorithm, running,
                   num_deliveries, path, target, battery0, reason>>

\* "if self.world.player.position == target": pickup or delivery, then the
\* loop goes round
ResolveArrival ==
    /\ pc = "arrive"
    /\ IF position = target /\ target \in Range(packages)
       THEN /\ cargo' = cargo + 1
            /\ packages' = Remove(packages, target)
            /\ UNCHANGED <<goals, num_deliveries, score>>
       ELSE IF position = target /\ target \in Range(goals) /\ cargo > 0
       THEN /\ cargo' = cargo - 1
            /\ num_deliveries' = num_deliveries + 1
            /\ goals' = Remove(goals, target)
            /\ score' = score + DeliveryScore
            /\ UNCHANGED packages
       ELSE UNCHANGED <<cargo, packages, goals, num_deliveries, score>>
    /\ pc' = "check"
    /\ UNCHANGED <<maze_size, search>>
    /\ UNCHANGED <<walls, recharger, total_items, show_emergency_alert, player,
                   position, battery, algorithm, running, steps, path, target,
                   idx, reason, battery0, posSteps, negSteps>>

Next ==
    \/ CheckDone
    \/ ChooseTarget
    \/ Navigate
    \/ Step
    \/ ResolveArrival

Spec == Init /\ [][Next]_vars

(***************************************************************************)
(* escolher_alvo on its own: the world (package list, goal list,           *)
(* recharger) is drawn as World.__init__ draws it, with shorter lists as   *)
(* they are once packages and goals have been removed; the call draws the  *)
(* agent (position, battery, cargo) and applies the policy.  The agent     *)
(* never stands on a package or on a goal when the policy is asked: a walk *)
(* ends on its target, which is then removed, or on the recharger.  The    *)
(* goal list is not empty: game_loop leaves before it asks otherwise.      *)
(***************************************************************************)
PolicyBatteries == (-1 .. MaxLow) \cup {44, 45, RechargeLevel, InitialBattery}

InitPolicy ==
    /\ walls = {}
    /\ \E seed \in Seeds, stride \in Strides,
          m \in 0 .. MaxPkgs, n \in 1 .. MaxGoals :
         LET drawn == [k \in 1 .. m + n |-> Place({}, seed, stride, k - 1)]
         IN  /\ Cardinality(Range(drawn)) = Len(drawn)
             /\ packages = SubSeq(drawn, 1, m)
             /\ goals = SubSeq(drawn, m + 1, m + n)
             /\ recharger \in {None, DrawRecharger(seed + stride, Range(drawn))}
    /\ total_items = TotalItems
    /\ show_emergency_alert = FALSE
    /\ player \in PlayerClasses
    /\ position = None
    /\ battery = 0 /\ cargo = 0 /\ battery0 = 0
    /\ algorithm = "astar"
    /\ running = TRUE
    /\ score = 0 /\ steps = 0 /\ num_deliveries = 0
    /\ path = <<>> /\ target = None /\ idx = 0
    /\ pc = "world"
    /\ reason = "" /\ posSteps = 0 /\ negSteps = 0
    /\ maze_size = N
    /\ search = None

\* target = player.escolher_alvo(world) for a player at pos with battery b
\* and cargo c
CallPolicy ==
    /\ pc = "world"
    /\ UNCHANGED <<maze_size, search>>
    /\ UNCHANGED <<walls, packages, goals, recharger, total_items, player,
                   algorithm, running, score, steps, num_deliveries, path, idx,
                   reason, battery0, posSteps, negSteps>>
    /\ \E pos \in Cells \ (Range(packages) \cup Range(goals)),
          b \in PolicyBatteries, c \in 0 .. max_cargo :
         /\ position' = pos
         /\ battery' = b
         /\ cargo' = c
    /\ target' = escolher_alvo'
    /\ show_emergency_alert' = (player = "smart" /\ EmergencyBranch')
    /\ pc' = "chosen"

NextPolicy == CallPolicy

SpecPolicy == InitPolicy /\ [][NextPolicy]_vars

(***************************************************************************)
(* Episodes on given worlds: the grid of World.__init__ (maze_size = 30,   *)
(* five packages, four goals, total_items = 4, battery 70) with the        *)
(* layouts below, and the 5 x 5 one-package world.  Every layout keeps     *)
(* the cells distinct and the recharger in the centre 3 x 3 region, as     *)
(* World.__init__, generate_player and generate_recharger do.              *)
(***************************************************************************)
\* World.__init__: self.maze_size = 30
MazeSize == 30

ScenarioWorlds ==
    { [size |-> 5, packages |-> << <<4, 0>> >>, goals |-> << <<4, 4>> >>,
       recharger |-> None, position |-> <<0, 0>>, total_items |-> 1,
       players |-> PlayerClasses, algorithms |-> Algorithms],
      [size |-> MazeSize,
       packages |-> << <<23, 18>>, <<25, 9>>, <<17, 24>>, <<3, 23>>,
                       <<17, 28>> >>,
       goals |-> << <<10, 21>>, <<11, 25>>, <<24, 22>>, <<23, 10>> >>,
       recharger |-> <<16, 14>>, position |-> <<25, 1>>,
       total_items |-> TotalItems,
       players |-> {"smart"}, algorithms |-> {"astar", "greedy"}],
      [size |-> MazeSize,
       packages |-> << <<8, 24>>, <<20, 0>>, <<8, 17>>, <<17, 11>>,
                       <<4, 28>> >>,
       goals |-> << <<0, 29>>, <<29, 29>>, <<0, 28>>, <<1, 29>> >>,
       recharger |-> <<14, 14>>, position |-> <<20, 7>>,
       total_items |-> TotalItems,
       players |-> {"smart"}, algorithms |-> {"astar", "greedy"}] }

\* __main__ installs SmartBatteryPlayer on the generated world and runs
\* game_loop with the algorithm of the command line
InitScenario ==
    /\ \E w \in ScenarioWorlds :
         /\ maze_size = w.size
         /\ packages = w.packages
         /\ goals = w.goals
         /\ recharger = w.recharger
         /\ position = w.position
         /\ total_items = w.total_items
         /\ player \in w.players
         /\ algorithm \in w.algorithms
    /\ walls = {}
    /\ show_emergency_alert = FALSE
    /\ battery = InitialBattery
    /\ battery0 = battery
    /\ cargo = 0
    /\ running = TRUE
    /\ score = 0
    /\ steps = 0
    /\ num_deliveries = 0
    /\ path = <<>>
    /\ target = None
    /\ idx = 0
    /\ pc = "check"
    /\ reason = ""
    /\ posSteps = 0
    /\ negSteps = 0
    /\ search = None

SpecScenario == InitScenario /\ [][Next]_vars

(***************************************************************************)
(* Properties of the pathfinders (checked under SpecPath).                 *)
(***************************************************************************)
Walkable(c) == InGrid(c) /\ c \notin walls

Adjacent(a, b) == Abs(a[1] - b[1]) + Abs(a[2] - b[2]) = 1

\* breadth-first distance over walkable cells: the set at distance d from
\* the start is grown ring by ring; -1 when the goal is never met
RECURSIVE RingDist(_, _, _, _)
RingDist(ring, seen, goal, d) ==
    IF goal \in ring THEN d
    ELSE IF ring = {} THEN -1
    ELSE LET next == {c \in Cells : /\ Walkable(c)
                                    /\ c \notin seen
                                    /\ \E r \in ring : Adjacent(r, c)}
         IN  RingDist(next, seen \cup next, goal, d + 1)

\* the shortest walkable 4-connected distance from start to goal, or -1
ShortestDist(start, goal) == RingDist({start}, {start}, goal, 0)

\* C1: for distinct walkable cells with the goal reachable from the start,
\* astar and dijkstra both return a path whose length is the shortest
\* walkable 4-connected distance (hence paths of the same length), and
\* greedy_best_first returns a path at least that long.
C1_OptimalLength ==
    (/\ pc = "found"
     /\ position # target
     /\ Walkable(target)
     /\ ShortestDist(position, target) >= 0)
    => /\ algorithm \in {"astar", "dijkstra"}
            => Len(path) = ShortestDist(position, target)
       /\ algorithm = "greedy"
            => Len(path) >= ShortestDist(position, target)

\* an astar call answered with a shortest path that has to go round an
\* obstacle (longer than the Manhattan distance)
C1_Witness ==
    /\ pc = "found"
    /\ algorithm = "astar"
    /\ Walkable(target)
    /\ Len(path) = ShortestDist(position, target)
    /\ Len(path) > heuristic(position, target)

\* path is a walk from start to goal over walkable cells that leaves out start
ValidWalk(start, goal, p) ==
    /\ Adjacent(start, p[1])
    /\ \A i \in 1 .. Len(p) - 1 : Adjacent(p[i], p[i + 1])
    /\ \A i \in 1 .. Len(p) : Walkable(p[i])
    /\ p[Len(p)] = goal
    /\ \A i \in 1 .. Len(p) : p[i] # start

\* C2: every non-empty path returned by any of the three algorithms starts
\* on a 4-neighbour of start, moves by 4-neighbour steps over in-bounds
\* non-obstacle cells, ends on goal and does not contain start.
C2_ValidWalk ==
    (pc = "found" /\ path # <<>>) => ValidWalk(position, target, path)

\* a returned path of three cells or more
C2_Witness ==
    /\ pc = "found"
    /\ Len(path) >= 3
    /\ ValidWalk(position, target, path)

\* C3: when goal is an obstacle, or no walkable 4-connected route joins
\* start and goal, each of the three algorithms returns the empty sequence.
C3_NoPathIsEmpty ==
    (/\ pc = "found"
     /\ (target \in walls \/ ShortestDist(position, target) = -1))
    => path = <<>>

\* a walkable goal cut off from start by obstacles, answered with the empty path
C3_Witness ==
    /\ pc = "found"
    /\ Walkable(target)
    /\ ShortestDist(position, target) = -1
    /\ path = <<>>

(***************************************************************************)
(* Properties of the episode loop (checked under Spec).                    *)
(***************************************************************************)
IsStep == pc = "walk" /\ pc' \in {"walk", "arrive"} /\ idx' = idx + 1

IsDelivery == pc = "arrive" /\ num_deliveries' = num_deliveries + 1

\* C4: a step changes score by -1 when battery > 0 before the step and by
\* -5 when battery <= 0 before the step, also when the cell stepped onto is
\* the recharger; a delivery changes score by +50; nothing else changes
\* score.  Hence score = 50 * deliveries - (steps taken with battery > 0)
\* - 5 * (steps taken with battery <= 0) in every reachable state.
C4_ScoreAccounting ==
    /\ [][/\ (IsStep /\ battery > 0) => score' = score - 1
          /\ (IsStep /\ battery <= 0) => score' = score - 5
          /\ IsDelivery => score' = score + 50
          /\ (~IsStep /\ ~IsDelivery) => score' = score]_vars
    /\ [](score = 50 * num_deliveries - posSteps - 5 * negSteps)
    /\ [](steps = posSteps + negSteps)

\* an episode that has taken steps with and without battery and has delivered
C4_Witness ==
    /\ posSteps > 0
    /\ negSteps > 0
    /\ num_deliveries > 0
    /\ score = 50 * num_deliveries - posSteps - 5 * negSteps

\* C5: in an episode driven by SmartBatteryPlayer cargo stays within
\* 0 .. max_cargo: no package is picked up at cargo = max_cargo and no
\* delivery is made at cargo = 0.
C5_CargoBounds ==
    /\ [](player = "smart" => (0 <= cargo /\ cargo <= max_cargo))
    /\ [][player = "smart" =>
            /\ cargo' > cargo => cargo < max_cargo
            /\ cargo' < cargo => cargo > 0]_vars

\* SmartBatteryPlayer asked for a target with a full cargo while packages remain
C5_Witness ==
    /\ player = "smart"
    /\ pc = "navigate"
    /\ cargo = max_cargo
    /\ packages # <<>>
    /\ target \notin Range(packages)

\* C6: a step onto the recharger cell leaves battery at the level the agent
\* starts the episode with (70, BasePlayer.__init__), and no other step
\* makes battery larger.
C6_RechargeToMax ==
    [][IsStep =>
        IF recharger # None /\ position' = recharger
        THEN battery0 = InitialBattery => battery' = InitialBattery
        ELSE battery' <= battery]_vars

\* C7: the loop ends as success exactly when the goal list is empty: with
\* the last goal removed the next pass of the loop stops without asking the
\* policy, stepping or touching score; it never ends as success, and never
\* stops asking, while a goal remains.
C7_SuccessIffNoGoals ==
    [][/\ (pc = "check" /\ goals = <<>>)
            => /\ pc' = "done" /\ reason' = "success" /\ ~running'
               /\ score' = score /\ steps' = steps /\ position' = position
               /\ target' = target /\ battery' = battery
       /\ (pc = "check" /\ goals # <<>>) => pc' = "choose"
       /\ reason' = "success" => goals' = <<>>
       /\ pc' \in {"choose", "navigate", "walk", "arrive"} => goals' # <<>>]_vars

\* an episode ended as success, all goals delivered
C7_Witness ==
    /\ pc = "done"
    /\ reason = "success"
    /\ goals = <<>>
    /\ num_deliveries = total_items

\* C10: arrival on the target.  A package target: cargo + 1 and exactly
\* that cell leaves the package list, goals and score unchanged.  Else a
\* goal target with cargo > 0: cargo - 1, exactly that cell leaves the goal
\* list, score + 50.  Else: cargo, packages, goals and score unchanged.
C10_ResolveArrival ==
    [][pc = "arrive" =>
        /\ position = target
        /\ IF target \in Range(packages)
           THEN /\ cargo' = cargo + 1
                /\ Range(packages') = Range(packages) \ {target}
                /\ Len(packages') = Len(packages) - 1
                /\ goals' = goals
                /\ score' = score
           ELSE IF target \in Range(goals) /\ cargo > 0
           THEN /\ cargo' = cargo - 1
                /\ Range(goals') = Range(goals) \ {target}
                /\ Len(goals') = Len(goals) - 1
                /\ packages' = packages
                /\ score' = score + 50
           ELSE /\ cargo' = cargo
                /\ packages' = packages
                /\ goals' = goals
                /\ score' = score]_vars

\* an episode that has picked up, delivered and, standing on the recharger
\* it walked to, is about to have that arrival resolved
C10_Witness ==
    /\ pc = "arrive"
    /\ target = recharger
    /\ num_deliveries > 0
    /\ cargo > 0

(***************************************************************************)
(* Properties of escolher_alvo (checked under SpecPolicy).                 *)
(***************************************************************************)
\* C8: with a recharger and more than one goal, battery <= distance(agent,
\* recharger) makes SmartBatteryPlayer.escolher_alvo return the recharger,
\* whatever cargo, packages and goals are.
C8_EmergencyRecharge ==
    (/\ pc = "chosen"
     /\ player = "smart"
     /\ recharger # None
     /\ Len(goals) > 1
     /\ battery <= distance_to(position, recharger))
    => target = recharger

\* the boundary battery = distance, with a package within 3 cells of an
\* agent without cargo, answered with the recharger
C8_Witness ==
    /\ pc = "chosen"
    /\ player = "smart"
    /\ recharger # None
    /\ Len(goals) > 1
    /\ cargo = 0
    /\ battery = distance_to(position, recharger)
    /\ battery > 0
    /\ \E i \in 1 .. Len(packages) : distance_to(position, packages[i]) <= 3
    /\ target = recharger

\* a package or a goal the agent can reach with its battery
Affordable ==
    \/ \E i \in 1 .. Len(packages) :
            battery >= distance_to(position, packages[i])
    \/ cargo > 0 /\ \E i \in 1 .. Len(goals) :
            battery >= distance_to(position, goals[i])

\* C9: without a recharger the policy still returns a package or a goal
\* whenever one is affordable with the current battery, and returns None
\* only when none is.
C9_NoRechargerFallback ==
    (pc = "chosen" /\ recharger = None /\ Affordable)
    => target \in Range(packages) \cup Range(goals)

(***************************************************************************)
(* Properties of the stages of game_loop (checked under Spec).             *)
(***************************************************************************)
\* C11: an empty battery never stops or blocks the walk: a step taken with
\* battery <= 0 moves the agent to the next path cell, adds 1 to steps and
\* takes exactly 1 from the battery (before a recharge on that cell), as a
\* step with a positive battery does; a walk always has its next step, and
\* the loop is never left from inside a walk; the policy ends an episode
\* only in a world without a recharger, where it does not read the battery.
C11_ExhaustionNeverBlocks ==
    /\ [][pc = "walk" =>
            /\ position' = path[idx + 1]
            /\ steps' = steps + 1
            /\ battery' = IF position' = recharger THEN RechargeLevel
                          ELSE battery - 1
            /\ pc' \in {"walk", "arrive"}
            /\ running']_vars
    /\ [](pc = "walk" => idx < Len(path))
    /\ [][pc' = "done" => pc \in {"check", "choose", "navigate"}]_vars
    /\ [](reason = "no_target" => recharger = None)

\* a walk that went on for steps with an empty battery, which is now below
\* -1
C11_Witness ==
    /\ pc \in {"walk", "arrive"}
    /\ idx >= 2
    /\ battery <= -2
    /\ negSteps >= 2
    /\ position = path[idx]

\* C12: when escolher_alvo returns None the loop terminates at once: no
\* pathfinder call and no second policy call follow, and position, battery,
\* cargo, packages, goals, steps and score keep their values.
C12_NoTargetTerminates ==
    /\ [][(pc = "choose" /\ escolher_alvo = None) =>
            /\ pc' = "done"
            /\ ~running'
            /\ UNCHANGED <<position, battery, cargo, packages, goals, steps,
                           score, path>>]_vars
    /\ [][~(pc = "done" /\ reason = "no_target")]_vars

\* an episode ended by the policy with packages still to collect
C12_Witness ==
    /\ pc = "done"
    /\ reason = "no_target"
    /\ ~running
    /\ target = None
    /\ packages # <<>>

\* C13: when the pathfinder returns an empty path the loop terminates at
\* once without retrying: no step is taken, neither the policy nor the
\* pathfinder is called again, and position, battery, cargo, packages,
\* goals, steps and score are unchanged.
C13_NoPathTerminates ==
    /\ [][(pc = "navigate" /\ FindPath(algorithm, position, target) = <<>>) =>
            /\ pc' = "done"
            /\ ~running'
            /\ UNCHANGED <<position, battery, cargo, packages, goals, steps,
                           score>>]_vars
    /\ [][~(pc = "done" /\ reason = "no_path")]_vars

\* an episode ended by a target that cannot be reached, after at least one
\* completed walk
C13_Witness ==
    /\ pc = "done"
    /\ reason = "no_path"
    /\ ~running
    /\ target # None
    /\ path = <<>>
    /\ steps > 0

\* C19: the policy is asked only between walks: a chosen path is visited
\* cell by cell in order up to the target, where the arrival is resolved,
\* before the policy is asked again; it is never asked on an intermediate
\* cell and no walk is abandoned.
C19_PolicyBetweenWalks ==
    /\ [](pc = "choose" => idx = Len(path))
    /\ []((pc \in {"walk", "arrive"} /\ idx > 0) => position = path[idx])
    /\ [](pc = "arrive" => idx = Len(path) /\ position = target)
    /\ [][pc = "walk" =>
            /\ pc' \in {"walk", "arrive"}
            /\ idx' = idx + 1
            /\ UNCHANGED <<path, target>>]_vars
    /\ [][pc' = "choose" => pc = "check"]_vars
    /\ [][pc' = "check" => pc = "arrive"]_vars

\* the policy asked again after a walk of three cells or more that followed
\* an earlier walk
C19_Witness ==
    /\ pc = "choose"
    /\ Len(path) >= 3
    /\ idx = Len(path)
    /\ steps > Len(path)
    /\ position = path[Len(path)]

(***************************************************************************)
(* Properties of the modes of SmartBatteryPlayer.escolher_alvo (checked    *)
(* under SpecPolicy, but for C20).                                         *)
(***************************************************************************)
\* a call of SmartBatteryPlayer.escolher_alvo in a world with a recharger
SmartCall == pc = "chosen" /\ player = "smart" /\ recharger # None

\* C14: last delivery with cargo: with a recharger, exactly one goal left
\* and cargo > 0, the goal is returned if and only if battery >= Manhattan
\* distance(agent, goal).
C14_LastDeliveryWithCargo ==
    (SmartCall /\ Len(goals) = 1 /\ cargo > 0)
    => (target = goals[1] <=> battery >= distance_to(position, goals[1]))

\* C15: last delivery with cargo and battery < distance(agent, goal): the
\* recharger is returned only if it is strictly closer to the agent than the
\* goal and battery >= distance(agent, recharger); otherwise None is
\* returned.
C15_LastDeliveryRechargeOrNone ==
    (/\ SmartCall
     /\ Len(goals) = 1
     /\ cargo > 0
     /\ battery < distance_to(position, goals[1]))
    => LET closer == /\ distance_to(position, recharger)
                          < distance_to(position, goals[1])
                     /\ battery >= distance_to(position, recharger)
       IN  /\ target = recharger => closer
           /\ ~closer => target = None

\* C16: last delivery without cargo: with a recharger, one goal g left,
\* cargo = 0 and packages to collect, a package minimising distance(agent, p)
\* + distance(p, g) among those whose sum is <= battery is returned whenever
\* there is one; only when there is none is the recharger returned (or None
\* when the battery does not reach the recharger).
C16_LastDeliveryWithoutCargo ==
    (SmartCall /\ Len(goals) = 1 /\ cargo = 0 /\ packages # <<>>)
    => LET total(i) == distance_to(position, packages[i])
                         + distance_to(packages[i], goals[1])
           afford == {i \in 1 .. Len(packages) : total(i) <= battery}
       IN  IF afford # {}
           THEN \E i \in afford :
                    /\ target = packages[i]
                    /\ \A j \in afford : total(i) <= total(j)
           ELSE \/ target = recharger
                \/ /\ target = None
                   /\ battery < distance_to(position, recharger)

\* C17: critical margin: with more than one goal left and distance(agent,
\* recharger) < battery <= distance(agent, recharger) + 5, the result is the
\* recharger or a package or goal within Manhattan distance 3 of the agent:
\* a goal only when cargo > 0, a package only when cargo = 0, and the
\* recharger exactly when there is no such goal (cargo > 0) or package
\* (cargo = 0).
C17_CriticalMargin ==
    (/\ SmartCall
     /\ Len(goals) > 1
     /\ distance_to(position, recharger) < battery
     /\ battery <= distance_to(position, recharger) + 5)
    => LET near(list) == {i \in 1 .. Len(list) :
                              distance_to(position, list[i]) <= 3}
       IN  /\ \/ target = recharger
              \/ cargo > 0 /\ \E i \in near(goals) : target = goals[i]
              \/ cargo = 0 /\ \E i \in near(packages) : target = packages[i]
           /\ target = recharger <=>
                 IF cargo > 0 THEN near(goals) = {} ELSE near(packages) = {}

\* an agent with cargo in the critical margin, a package within 3 cells and
\* every goal farther than 3 cells: sent to the recharger
C17_Witness ==
    /\ SmartCall
    /\ Len(goals) > 1
    /\ distance_to(position, recharger) < battery
    /\ battery <= distance_to(position, recharger) + 5
    /\ cargo > 0
    /\ \E i \in 1 .. Len(packages) : distance_to(position, packages[i]) <= 3
    /\ \A i \in 1 .. Len(goals) : distance_to(position, goals[i]) > 3
    /\ target = recharger

\* the filter of C18 on goal number i
GoalPasses(i) ==
    \/ distance_to(position, goals[i]) <= 3
    \/ battery >= distance_to(position, goals[i])
                  + distance_to(goals[i], recharger) + 5

\* C18: with more than one goal left, a goal g is returned only with
\* cargo > 0 and distance(agent, g) <= 3 or battery >= distance(agent, g) +
\* distance(g, recharger) + 5; with cargo > 0 and no goal passing this
\* filter, the recharger is returned (unless a nearby package is picked
\* first), never None.
C18_DeliveryFilter ==
    (SmartCall /\ Len(goals) > 1)
    => /\ \A i \in 1 .. Len(goals) :
             target = goals[i] => cargo > 0 /\ GoalPasses(i)
       /\ (cargo > 0 /\ \A i \in 1 .. Len(goals) : ~GoalPasses(i))
             => \/ target = recharger
                \/ /\ cargo < max_cargo
                   /\ \E i \in 1 .. Len(packages) :
                         /\ target = packages[i]
                         /\ distance_to(position, packages[i])
                               <= nearby_package_range

\* normal mode (battery above the critical margin, no opportunistic
\* recharge), cargo to deliver and no goal passing the filter: the recharger
\* is the answer
C18_Witness ==
    /\ SmartCall
    /\ Len(goals) > 1
    /\ cargo > 0
    /\ battery > distance_to(position, recharger) + 5
    /\ distance_to(position, recharger) > 3
    /\ \A i \in 1 .. Len(goals) : ~GoalPasses(i)
    /\ target = recharger

\* C20: a call of SmartBatteryPlayer.escolher_alvo only reads: it changes
\* no attribute of the world (packages, goals, recharger, map or any other
\* field) and none of the agent (position, battery, cargo), in every branch.
C20_PolicyOnlyReads ==
    [][(pc = "choose" /\ player = "smart") =>
         UNCHANGED <<walls, maze_size, packages, goals, recharger,
                     total_items, show_emergency_alert, position, battery,
                     cargo>>]_vars

C25_OpportunisticRecharge ==
    (/\ SmartCall
     /\ Len(goals) > 1
     /\ battery > distance_to(position, recharger) + 5
     /\ distance_to(position, recharger) <= 3
     /\ battery < 45)
    => target = recharger

\* the recharger chosen at 44 with a package and a goal both closer to the
\* agent than the recharger
C25_Witness ==
    /\ SmartCall
    /\ Len(goals) > 1
    /\ battery = 44
    /\ distance_to(position, recharger) \in 2 .. 3
    /\ \E i \in 1 .. Len(packages) :
          distance_to(position, packages[i]) < distance_to(position, recharger)
    /\ \E i \in 1 .. Len(goals) :
          distance_to(position, goals[i]) < distance_to(position, recharger)
    /\ cargo \in 1 .. max_cargo - 1
    /\ target = recharger

\* C28: with a recharger, SmartBatteryPlayer.escolher_alvo returns None only
\* with cargo = 0 and no package left; so in a state of an episode of World
\* (one package more than goals at the start: cargo + packages left = goals
\* left + 1) it never returns None.
C28_NoneOnlyWhenNothingToCarry ==
    SmartCall =>
        /\ target = None => (cargo = 0 /\ packages = <<>>)
        /\ cargo + Len(packages) = Len(goals) + 1 => target # None

\* None returned with a recharger, to an agent without cargo in a world
\* without packages, on a full battery
C28_Witness ==
    /\ SmartCall
    /\ target = None /\ cargo = 0 /\ packages = <<>> /\ Len(goals) > 1
    /\ battery = RechargeLevel

\* C30: conservation: in every reachable state num_deliveries + goals left
\* = total_items and cargo + packages left + num_deliveries = the initial
\* number of packages; packages and goals are never added, and one removal
\* takes one cell out of one list.
C30_Conservation ==
    /\ [](num_deliveries + Len(goals) = total_items)
    /\ [](cargo + Len(packages) + num_deliveries = TotalItems + 1)
    /\ [](Cardinality(Range(packages) \cup Range(goals))
            = Len(packages) + Len(goals))
    /\ [][/\ Range(packages') \subseteq Range(packages)
          /\ Range(goals') \subseteq Range(goals)
          /\ Len(packages) + Len(goals) - Len(packages') - Len(goals')
                \in {0, 1}]_vars

\* an episode with packages collected, goals served and cargo on board
C30_Witness ==
    /\ num_deliveries >= 2
    /\ cargo >= 1
    /\ Len(packages) < TotalItems
    /\ Len(goals) = total_items - num_deliveries
    /\ pc = "check"

\* C29: on an obstacle-free grid with a recharger and an initial battery >
\* distance(agent, recharger) + 5, an agent driven by SmartBatteryPlayer
\* never has battery < 0 while more than one goal remains.  An initial
\* battery above 2 * (maze_size - 1) + 5 is above distance + 5 wherever the
\* agent and the recharger are.
C29_NoNegativeBattery ==
    (/\ player = "smart"
     /\ walls = {}
     /\ recharger # None
     /\ battery0 > 2 * (maze_size - 1) + 5
     /\ Len(goals) > 1)
    => battery >= 0

\* C27: where every package, goal and the recharger is reachable, an episode
\* driven by SmartBatteryPlayer never gets the agent's own cell as target and
\* never ends through the empty-path exit.
C27_NeverOwnCell ==
    (player = "smart" /\ walls = {})
    => /\ (pc = "navigate" => target # position)
       /\ reason # "no_path"

\* C22: in the 5 x 5 scenario without recharger the policy selects (4,0),
\* then (4,4), and the episode ends successfully with cargo 0, no goal
\* left and score = 50 - steps.
C22_Scenario ==
    (maze_size = 5 /\ player = "smart")
    => /\ (pc = "navigate" /\ cargo = 0 => target = <<4, 0>>)
       /\ (pc = "navigate" /\ cargo = 1
             => target = <<4, 4>> /\ packages = <<>>)
       /\ (pc = "done"
             => /\ reason = "success"
                /\ cargo = 0
                /\ goals = <<>>
                /\ score = DeliveryScore - steps)

\* the packages and goals still in the world
Items == Len(packages) + Len(goals)

\* 1 while a walk to the recharger can still come before the next removal
RechargerWalkLeft ==
    CASE pc \in {"check", "choose"} -> IF position # recharger THEN 1 ELSE 0
      [] pc = "navigate" ->
            IF target = recharger /\ position # recharger THEN 1 ELSE 0
      [] pc \in {"walk", "arrive"} -> IF target = recharger THEN 1 ELSE 0
      [] OTHER -> 0

\* the stages of the loop body that are still ahead in this cycle
StagesLeft ==
    CASE pc = "check" -> 5
      [] pc = "choose" -> 4
      [] pc = "navigate" -> 3
      [] pc = "walk" -> 2
      [] pc = "arrive" -> 1
      [] OTHER -> 0

\* the cells of the current walk still ahead
CellsLeft == IF pc = "walk" THEN Len(path) - idx ELSE 0

\* a natural number ordering the states lexicographically by (Items,
\* RechargerWalkLeft, StagesLeft, CellsLeft); a path has at most
\* maze_size * maze_size cells
Variant ==
    ((Items * 2 + RechargerWalkLeft) * 6 + StagesLeft)
        * (maze_size * maze_size + 1) + CellsLeft

\* C26: every episode terminates, whichever policy drives it: every stage of
\* the loop lowers the natural number Variant and the loop only stops in
\* the terminated state, so no behaviour goes on for ever; an arrival at a
\* target other than the recharger takes a package or a goal out of the
\* world and a walk to the recharger never starts on the recharger, so at
\* most one recharger walk lies between two removals.
C26_EpisodeTerminates ==
    /\ [][Variant' < Variant]_vars
    /\ [](Variant \in Nat /\ CellsLeft \in 0 .. maze_size * maze_size)
    /\ [](/\ pc = "check" => running
          /\ pc = "walk" => idx < Len(path)
          /\ pc = "done" => ~running)
    /\ [][(pc = "arrive" /\ target # recharger) => Items' = Items - 1]_vars
    /\ [](pc = "walk" /\ idx = 0 /\ target = recharger
            => position # recharger)

\* an episode that walked to the recharger, removed something afterwards and
\* ended
C26_Witness ==
    /\ pc = "done"
    /\ player = "smart"
    /\ recharger # None
    /\ position # recharger
    /\ battery0 < RechargeLevel
    /\ battery > battery0
    /\ num_deliveries >= 1

\* the cell reached from c after k steps back through came_from
RECURSIVE Hops(_, _, _)
Hops(f, c, k) ==
    IF k = 0 \/ c \notin DOMAIN f THEN c ELSE Hops(f, f[c], k - 1)

\* no chain of predecessors comes back on itself
Acyclic(f) ==
    \A c \in DOMAIN f : Hops(f, c, Cardinality(DOMAIN f)) \notin DOMAIN f

\* the cost recorded for cell c, or the number of cells of the grid (more
\* than any cost) while c has never been pushed
CostOrMax(c) ==
    IF c \in DOMAIN search.gscore THEN search.gscore[c]
    ELSE IF c \in DOMAIN search.came_from \/ c = position THEN 0
    ELSE maze_size * maze_size

RECURSIVE CostSum(_)
CostSum(k) == IF k = 0 THEN 0 ELSE CostOrMax(RowMajor[k]) + CostSum(k - 1)

\* every push lowers CostSum by at least one and an iteration pushes at most
\* four entries after popping one
SearchVariant == 4 * CostSum(Len(RowMajor)) + Cardinality(search.heap)

\* C23: every call of astar, dijkstra and greedy_best_first terminates,
\* whether goal is reachable or not: every iteration of the loop lowers the
\* natural number SearchVariant, the loop ends when goal is popped or when
\* the frontier is empty, the predecessor map never has a cycle and never
\* has start as a key, and the path returned is the reconstruction through
\* it, in at most as many steps as the map has keys.
C23_SearchTerminates ==
    /\ [][pc = "search" => pc' # "search" \/ SearchVariant' < SearchVariant]_vars
    /\ [](SearchVariant \in Nat)
    /\ [][pc' = "found" => /\ search.heap # {}
                           /\ HeapMin(search.heap)[2] = target]_vars
    /\ [][pc' = "failed" => search.heap = {} /\ path' = <<>>]_vars
    /\ [](position \notin DOMAIN search.came_from
            /\ Acyclic(search.came_from))
    /\ [](pc = "found"
            => /\ path = Reverse(Backtrack(search.came_from, target))
               /\ Len(path) <= Cardinality(DOMAIN search.came_from)
               /\ path = FindPath(algorithm, position, target))
    /\ [](pc = "failed" => path = FindPath(algorithm, position, target))

\* a search that ended on an empty frontier after expanding cells, and one
\* that popped its goal after expanding cells
C23_Witness ==
    /\ steps >= 3
    /\ \/ pc = "failed" /\ target \notin walls /\ algorithm = "greedy"
       \/ pc = "found" /\ Len(path) >= 3 /\ algorithm = "dijkstra"
       \/ pc = "found" /\ Len(path) >= 3 /\ algorithm = "astar"

\* C31: the walk along a path leaves cargo, the packages, the goals and
\* num_deliveries as they are, also on a package cell or goal cell that is
\* not the last cell of the path: a step changes position, steps, battery
\* and score only, with a recharge on the recharger; the lists change only
\* in the arrival at the last cell; the obstacles and the recharger never
\* change.
C31_WalkFrame ==
    /\ [][(pc = "navigate" \/ pc = "walk")
            => (UNCHANGED <<cargo, packages, goals, num_deliveries>>)]_vars
    /\ [][pc = "walk"
            => /\ steps' = steps + 1
               /\ position' = path[idx + 1]
               /\ battery' = IF position' = recharger THEN RechargeLevel
                             ELSE battery - 1
               /\ score' \in {score - 1, score - 5}]_vars
    /\ [][packages' # packages \/ goals' # goals \/ cargo' # cargo
            => pc = "arrive" /\ idx = Len(path) /\ position = target]_vars
    /\ [][walls' = walls /\ recharger' = recharger]_vars

\* the agent, with cargo on board, has walked over a goal cell and stands on
\* a package cell that is not the last cell of its path
C31_Witness ==
    /\ pc = "walk"
    /\ idx >= 1
    /\ idx < Len(path)
    /\ cargo >= 1
    /\ position # target
    /\ position \in Range(packages)
    /\ \E i \in 1 .. idx : path[i] \in Range(goals)

\* target is a package of the world, a goal of the world asked for with
\* cargo on board, or the recharger
Actionable ==
    \/ target \in Range(packages)
    \/ target \in Range(goals) /\ cargo > 0
    \/ recharger # None /\ target = recharger

\* C32: every target other than None that SmartBatteryPlayer.escolher_alvo
\* returns is a package of the world, a goal of the world returned with
\* cargo > 0, or the recharger; so every arrival at a goal target under this
\* policy is a delivery.
C32_ActionableTarget ==
    /\ []((pc = "navigate" /\ player = "smart") => Actionable)
    /\ [][(pc = "arrive" /\ player = "smart" /\ target \in Range(goals))
            => /\ num_deliveries' = num_deliveries + 1
               /\ cargo' = cargo - 1
               /\ target \notin Range(goals')]_vars

\* a goal returned after a first delivery, with cargo on board
C32_Witness ==
    /\ pc = "navigate"
    /\ player = "smart"
    /\ recharger # None
    /\ target \in Range(goals)
    /\ cargo >= 1
    /\ num_deliveries >= 1

\* the same membership on the calls of the policy made on their own
C32_PolicyCalls == (SmartCall /\ target # None) => Actionable

\* C33: for start = goal astar, dijkstra and greedy_best_first all return
\* the empty sequence; so when the policy returns the cell the agent stands
\* on, the episode ends through the empty-path exit with no step taken and
\* no arrival resolved: no pickup, no delivery and no recharge.
C33_OwnCellEndsEpisode ==
    /\ [](\A a \in Algorithms : FindPath(a, position, position) = <<>>)
    /\ [][(pc = "navigate" /\ target = position)
            => /\ path' = <<>>
               /\ pc' = "done"
               /\ ~running'
               /\ reason' = "no_path"
               /\ (UNCHANGED <<position, steps, battery, score, cargo,
                               packages, goals, num_deliveries>>)]_vars
    /\ []((pc = "done" /\ reason = "no_path" /\ target = position)
            => path = <<>> /\ idx = 0)

\* an episode ended on the recharger, which the policy returned to the agent
\* standing on it with cargo on board
C33_Witness ==
    /\ pc = "done"
    /\ reason = "no_path"
    /\ target = position
    /\ position = recharger
    /\ cargo = 1
    /\ battery = RechargeLevel
    /\ steps > 0

\* C34: within one call of astar or dijkstra a cell is popped and expanded
\* at most once (the entry about to be popped is never of a cell already in
\* close_set); within one call of greedy_best_first a cell is in the
\* frontier at most once and never after it was visited; the frontier never
\* holds more than maze_size * maze_size entries.
C34_ExpandedOnce ==
    pc = "search" =>
        /\ (algorithm \in {"astar", "dijkstra"} /\ search.heap # {})
              => HeapMin(search.heap)[2] \notin search.close_set
        /\ algorithm = "greedy"
              => /\ \A e, f \in search.heap : e[2] = f[2] => e = f
                 /\ \A e \in search.heap : e[2] \notin search.close_set
        /\ Cardinality(search.heap) <= maze_size * maze_size

====
